---- MODULE Spec2Model ----
(***************************************************************************)
(* auto-zhipin: the discovery engine (BossZhipin.login, BossZhipin.        *)
(* seek_jobs) and the evaluation pipeline (Logic.evaluate, Logic.          *)
(* _evaluator), modelled as state machines whose steps are the stretches   *)
(* of code between two suspension points of the asyncio event loop.        *)
(***************************************************************************)
EXTENDS FiniteSets, Integers, Sequences, TLC

(* ------------------------------ bounds -------------------------------- *)

\* largest batch handed to the evaluation pipeline
MaxBatch == 3
\* largest --concurrency
MaxConcurrency == 2
\* largest number of postings the listing site has for the filtered URL
MaxJobs == 3
\* largest --job-count of the seek command
MaxCount == 2
\* postings the site appends to the rendered list per list-page response
PageSize == 2
\* longest sequence of saved cookies handed to login
MaxCookies == 2

(* ----------------------------- variables ------------------------------ *)

VARIABLES
    \* ---- Logic.evaluate / Logic._evaluator
    concurrency,            \* --concurrency
    unevaluated_job_list,   \* the selected batch (job_encrypt_id of each JobDetail)
    llm_outcome,            \* per job: what the agent and JobEvaluation.save would do
    eval_pc,                \* position of Logic.evaluate
    put_ix,                 \* how many jobs the for loop has put
    job_queue,              \* asyncio.Queue: the items
    unfinished_tasks,       \* asyncio.Queue: _unfinished_tasks
    workers,                \* the _evaluator tasks
    job_evaluation,         \* table job_evaluation (primary keys)
    get_calls,              \* per job: how often job_queue.get() returned it
    task_done_calls,        \* per job: how often task_done() ran for it
    save_calls,             \* per job: how often JobEvaluation.save committed it
    \* ---- BossZhipin.seek_jobs and the listing page it drives
    count,                  \* parameter count
    filter_func,            \* parameter filter_func
    site_jobs,              \* the site: activeTimeDesc of each posting, in list order
    seek_pc,                \* position of the generator
    queried_count,          \* local queried_count
    job_list_ix,            \* local job_list_ix
    encrypt_job_id_to_job_summary,
    job_detail_list,
    job_detail,             \* local job_detail (0 while unset)
    yielded,                \* what the generator has yielded, with the detail it came from
    seek_error,             \* the exception that ended the generator
    rendered,               \* number of .job-card-box elements in the page
    loading,                \* .loading-wait is visible
    list_finished,          \* list responses whose requestfinished is not yet handled
    detail_requested,       \* detail requests whose requestfinished is not yet handled
    handler_errors,         \* exceptions raised inside on_request_finished
    clicked,                \* the list indices clicked, in order
    interval_calls,         \* how often interval_func was awaited
    \* ---- BossZhipin.login
    headless,
    allow_to_show_login_page,
    cookies,                \* parameter cookies
    login_pc,               \* position of login
    page_url,               \* page.url after goto(login url)
    browser_ctx_cookies,    \* cookie jar of self.browser_ctx
    visible_browsers,       \* second, visible browsers opened for the login
    wait_for_login_calls,   \* calls of _wait_for_login, with the surface used
    raw_cookies,            \* local raw_cookies: what _wait_for_login returned
    login_result,           \* what login returned
    login_error,            \* what login raised
    \* ---- the tables behind db.Cookie and db.JobDetail, and the calls made on them
    cookie_table,           \* table cookie: its rows
    job_detail_table,       \* table job_detail: job_encrypt_id and created_at of its rows
    job_count,              \* --job-count
    db_ops,                 \* the calls made so far, in order
    overwritten,            \* the cookies given to the last overwrite_all
    deleted_rows,           \* the rows the last overwrite_all deleted
    fetched,                \* what the last fetch_all returned
    selected,               \* what the last selection of unevaluated jobs returned
    \* ---- DatabaseContext.begin around JobDetail.save
    session_ctx,            \* the session in the context variable (None when unset)
    token,                  \* the value session_ctx had before begin() set it
    session_rows,           \* rows flushed in the session and not yet committed
    begin_body,             \* the row the body saves, whether it raises, whether commit fails
    begin_pc,               \* position in the async with block
    begin_error,            \* what left the block as an exception
    store_at_entry,         \* table job_detail when the block was entered
    \* ---- Logic.seek
    debug,                  \* --debug
    logic_pc,               \* position of Logic.seek
    logic_error,            \* what Logic.seek raised
    saved_cookies,          \* local saved_cookies (None while unset)
    \* ---- evaluator.evaluate_job
    stream,                 \* what result.stream_structured() will produce
    ej_pc,                  \* position of evaluate_job
    ej_ix,                  \* messages consumed so far
    evaluation,             \* local evaluation (None while unset)
    ej_result,              \* the JobEvaluation returned
    ej_error                \* what evaluate_job raised

evalVars == <<concurrency, unevaluated_job_list, llm_outcome, eval_pc, put_ix,
              job_queue, unfinished_tasks, workers, job_evaluation,
              get_calls, task_done_calls, save_calls>>

seekVars == <<count, filter_func, site_jobs, seek_pc, queried_count, job_list_ix,
              encrypt_job_id_to_job_summary, job_detail_list, job_detail, yielded,
              seek_error, rendered, loading, list_finished, detail_requested,
              handler_errors, clicked, interval_calls>>

loginVars == <<headless, allow_to_show_login_page, cookies, login_pc, page_url,
               browser_ctx_cookies, visible_browsers, wait_for_login_calls,
               raw_cookies, login_result, login_error>>

beginVars == <<session_ctx, token, session_rows, begin_body, begin_pc, begin_error,
               store_at_entry>>

dbVars == <<cookie_table, job_detail_table, job_count, db_ops, overwritten,
            deleted_rows, fetched, selected, beginVars>>

logicVars == <<debug, logic_pc, logic_error, saved_cookies>>

ejVars == <<stream, ej_pc, ej_ix, evaluation, ej_result, ej_error>>

vars == <<evalVars, seekVars, loginVars, dbVars, logicVars, ejVars>>


(* ====================================================================== *)
(*                         BossZhipin.seek_jobs                           *)
(* ====================================================================== *)

JobIds == 1..MaxJobs

\* activeTimeDesc values, character by character: "gang gang huo yue" (active
\* just now) and "ben zhou huo yue" (active this week); each Chinese character
\* is spelled in ASCII
ActiveTimeDescs ==
    { <<"gang", "gang", "huo", "yue_leap">>,
      <<"ben", "zhou_week", "huo", "yue_leap">> }

\* set(s) of a Python string: its characters
CharSet(desc) == {desc[i] : i \in DOMAIN desc}

\* the set literal of line 69 has ONE element, the three-character string
default_job_filter(job) ==
    (CharSet(job.boss_info.active_time_desc) \cap {"zhou_week yue_month nian_year"}) = {}

\* the detail response of posting i
RawJobDetail(i) ==
    [job_info |-> [encrypt_id |-> i], boss_info |-> [active_time_desc |-> site_jobs[i]]]

\* the list entry of posting i
RawJobSummary(i) == [encrypt_job_id |-> i, city_name |-> <<"city", i>>]

_build_job_detail(job_summary, detail) ==
    [job_encrypt_id |-> detail.job_info.encrypt_id,
     job_city_name |-> job_summary.city_name]

\* await filter_func(job_detail)
filter_result(detail) ==
    IF filter_func.default
    THEN default_job_filter(detail)
    ELSE detail.job_info.encrypt_id \in filter_func.accepts

\* while queried_count < count
loop_continues == queried_count < count

\* the page is open and its requestfinished events are delivered
SeekRunning == seek_pc \in {"wait_list", "click", "filter", "interval"}

Min(a, b) == IF a < b THEN a ELSE b

\* page.on(...); goto(from_url); expect(job_list_con).to_be_visible();
\* queried_count = 0; job_list_ix = 0; first test of the while condition
SeekStart ==
    /\ seek_pc = "start"
    /\ rendered' = Min(PageSize, Len(site_jobs))
    /\ list_finished' = IF Len(site_jobs) = 0 THEN <<>> ELSE << 1..Min(PageSize, Len(site_jobs)) >>
    /\ queried_count' = 0
    /\ job_list_ix' = 0
    /\ seek_pc' = IF 0 < count THEN "wait_list" ELSE "done"
    /\ UNCHANGED <<count, filter_func, site_jobs, encrypt_job_id_to_job_summary,
                   job_detail_list, job_detail, yielded, seek_error, loading,
                   detail_requested, handler_errors, clicked, interval_calls>>
    /\ UNCHANGED <<evalVars, loginVars, dbVars, logicVars, ejVars>>

\* await expect(loading).to_be_hidden() passes; job_list = ...all();
\* await job_list[job_list_ix].click()  -- the click is issued
SeekClick ==
    /\ seek_pc = "wait_list"
    /\ ~loading
    /\ IF job_list_ix >= rendered
       THEN /\ seek_pc' = "raised"
            /\ seek_error' = "IndexError"
            /\ UNCHANGED <<detail_requested, clicked>>
       ELSE /\ seek_pc' = "click"
            /\ detail_requested' = Append(detail_requested, job_list_ix + 1)
            /\ clicked' = Append(clicked, job_list_ix)
            /\ UNCHANGED seek_error
    /\ UNCHANGED <<count, filter_func, site_jobs, queried_count, job_list_ix,
                   encrypt_job_id_to_job_summary, job_detail_list, job_detail, yielded,
                   rendered, loading, list_finished, handler_errors, interval_calls>>
    /\ UNCHANGED <<evalVars, loginVars, dbVars, logicVars, ejVars>>

\* await expect(loading).to_be_hidden() times out while the indicator is shown
SeekLoadingTimeout ==
    /\ seek_pc = "wait_list"
    /\ loading
    /\ seek_pc' = "raised"
    /\ seek_error' = "AssertionError"
    /\ UNCHANGED <<count, filter_func, site_jobs, queried_count, job_list_ix,
                   encrypt_job_id_to_job_summary, job_detail_list, job_detail, yielded,
                   rendered, loading, list_finished, detail_requested, handler_errors,
                   clicked, interval_calls>>
    /\ UNCHANGED <<evalVars, loginVars, dbVars, logicVars, ejVars>>

\* SeekReadDetail that leaves job_list_ix as it is
SeekReadDetail_NoAdvance ==
    /\ seek_pc = "click"
    /\ IF job_detail_list = <<>>
       THEN /\ seek_pc' = "raised"
            /\ seek_error' = "IndexError"
            /\ UNCHANGED job_detail
       ELSE /\ job_detail' = job_detail_list[Len(job_detail_list)]
            /\ seek_pc' = "filter"
            /\ UNCHANGED seek_error
    /\ UNCHANGED <<count, filter_func, site_jobs, queried_count, job_list_ix,
                   encrypt_job_id_to_job_summary, job_detail_list, yielded, rendered,
                   loading, list_finished, detail_requested, handler_errors, clicked,
                   interval_calls>>
    /\ UNCHANGED <<evalVars, loginVars, dbVars, logicVars, ejVars>>

\* click() returns; job_list_ix += 1; job_detail = job_detail_list[-1]
SeekReadDetail ==
    /\ seek_pc = "click"
    /\ job_list_ix' = job_list_ix + 1
    /\ IF job_detail_list = <<>>
       THEN /\ seek_pc' = "raised"
            /\ seek_error' = "IndexError"
            /\ UNCHANGED job_detail
       ELSE /\ job_detail' = job_detail_list[Len(job_detail_list)]
            /\ seek_pc' = "filter"
            /\ UNCHANGED seek_error
    /\ UNCHANGED <<count, filter_func, site_jobs, queried_count,
                   encrypt_job_id_to_job_summary, job_detail_list, yielded, rendered,
                   loading, list_finished, detail_requested, handler_errors, clicked,
                   interval_calls>>
    /\ UNCHANGED <<evalVars, loginVars, dbVars, logicVars, ejVars>>

\* SeekFilter with the test of the filter result lost: every detail is yielded
SeekFilter_Unfiltered ==
    /\ seek_pc = "filter"
    /\ IF job_detail.job_info.encrypt_id \in DOMAIN encrypt_job_id_to_job_summary
       THEN /\ yielded' = Append(yielded,
                   [job |-> _build_job_detail(
                               encrypt_job_id_to_job_summary[job_detail.job_info.encrypt_id],
                               job_detail),
                    from |-> job_detail])
            /\ seek_pc' = "interval"
            /\ UNCHANGED seek_error
       ELSE /\ seek_pc' = "raised"
            /\ seek_error' = "KeyError"
            /\ UNCHANGED yielded
    /\ UNCHANGED <<count, filter_func, site_jobs, queried_count, job_list_ix,
                   encrypt_job_id_to_job_summary, job_detail_list, job_detail, rendered,
                   loading, list_finished, detail_requested, handler_errors, clicked,
                   interval_calls>>
    /\ UNCHANGED <<evalVars, loginVars, dbVars, logicVars, ejVars>>

\* if await filter_func(job_detail): job_summary = ...[...]; job = ...; yield job
SeekFilter ==
    /\ seek_pc = "filter"
    /\ IF filter_result(job_detail)
       THEN IF job_detail.job_info.encrypt_id \in DOMAIN encrypt_job_id_to_job_summary
            THEN /\ yielded' = Append(yielded,
                        [job |-> _build_job_detail(
                                    encrypt_job_id_to_job_summary[job_detail.job_info.encrypt_id],
                                    job_detail),
                         from |-> job_detail])
                 /\ seek_pc' = "interval"
                 /\ UNCHANGED seek_error
            ELSE /\ seek_pc' = "raised"
                 /\ seek_error' = "KeyError"
                 /\ UNCHANGED yielded
       ELSE /\ seek_pc' = "interval"
            /\ UNCHANGED <<yielded, seek_error>>
    /\ UNCHANGED <<count, filter_func, site_jobs, queried_count, job_list_ix,
                   encrypt_job_id_to_job_summary, job_detail_list, job_detail, rendered,
                   loading, list_finished, detail_requested, handler_errors, clicked,
                   interval_calls>>
    /\ UNCHANGED <<evalVars, loginVars, dbVars, logicVars, ejVars>>

\* await interval_func(); next test of the while condition
SeekInterval ==
    /\ seek_pc = "interval"
    /\ interval_calls' = interval_calls + 1
    /\ seek_pc' = IF loop_continues THEN "wait_list" ELSE "done"
    /\ UNCHANGED <<count, filter_func, site_jobs, queried_count, job_list_ix,
                   encrypt_job_id_to_job_summary, job_detail_list, job_detail, yielded,
                   seek_error, rendered, loading, list_finished, detail_requested,
                   handler_errors, clicked>>
    /\ UNCHANGED <<evalVars, loginVars, dbVars, logicVars, ejVars>>

\* the page starts to fetch the next list page and shows .loading-wait
SiteLoadMore ==
    /\ SeekRunning
    /\ ~loading
    /\ rendered < Len(site_jobs)
    /\ loading' = TRUE
    /\ UNCHANGED <<count, filter_func, site_jobs, seek_pc, queried_count, job_list_ix,
                   encrypt_job_id_to_job_summary, job_detail_list, job_detail, yielded,
                   seek_error, rendered, list_finished, detail_requested,
                   handler_errors, clicked, interval_calls>>
    /\ UNCHANGED <<evalVars, loginVars, dbVars, logicVars, ejVars>>

\* the next list page arrived: its cards are appended, the indicator is hidden
SiteLoaded ==
    /\ SeekRunning
    /\ loading
    /\ loading' = FALSE
    /\ rendered' = Min(rendered + PageSize, Len(site_jobs))
    /\ list_finished' = Append(list_finished,
                               (rendered + 1)..Min(rendered + PageSize, Len(site_jobs)))
    /\ UNCHANGED <<count, filter_func, site_jobs, seek_pc, queried_count, job_list_ix,
                   encrypt_job_id_to_job_summary, job_detail_list, job_detail, yielded,
                   seek_error, detail_requested, handler_errors, clicked, interval_calls>>
    /\ UNCHANGED <<evalVars, loginVars, dbVars, logicVars, ejVars>>

\* _parse_response: ProgrammingError unless the response exists and is ok
_parse_response_raises(ok) == ~ok

RemoveAt(s, k) == [i \in 1..(Len(s) - 1) |-> IF i < k THEN s[i] ELSE s[i + 1]]

\* on_request_finished for a request of the job list
OnListFinished(k, ok) ==
    /\ SeekRunning
    /\ k \in DOMAIN list_finished
    /\ list_finished' = RemoveAt(list_finished, k)
    /\ IF _parse_response_raises(ok)
       THEN /\ handler_errors' = handler_errors + 1
            /\ UNCHANGED encrypt_job_id_to_job_summary
       ELSE /\ encrypt_job_id_to_job_summary' =
                  [i \in (DOMAIN encrypt_job_id_to_job_summary) \cup list_finished[k]
                      |-> IF i \in list_finished[k] THEN RawJobSummary(i)
                          ELSE encrypt_job_id_to_job_summary[i]]
            /\ UNCHANGED handler_errors
    /\ UNCHANGED <<count, filter_func, site_jobs, seek_pc, queried_count, job_list_ix,
                   job_detail_list, job_detail, yielded, seek_error, rendered, loading,
                   detail_requested, clicked, interval_calls>>
    /\ UNCHANGED <<evalVars, loginVars, dbVars, logicVars, ejVars>>

\* on_request_finished for a request of a job detail
OnDetailFinished(k, ok) ==
    /\ SeekRunning
    /\ k \in DOMAIN detail_requested
    /\ detail_requested' = RemoveAt(detail_requested, k)
    /\ IF _parse_response_raises(ok)
       THEN /\ handler_errors' = handler_errors + 1
            /\ UNCHANGED job_detail_list
       ELSE /\ job_detail_list' = Append(job_detail_list, RawJobDetail(detail_requested[k]))
            /\ UNCHANGED handler_errors
    /\ UNCHANGED <<count, filter_func, site_jobs, seek_pc, queried_count, job_list_ix,
                   encrypt_job_id_to_job_summary, job_detail, yielded, seek_error,
                   rendered, loading, list_finished, clicked, interval_calls>>
    /\ UNCHANGED <<evalVars, loginVars, dbVars, logicVars, ejVars>>

NextSeekJobs ==
    \/ SeekStart
    \/ SeekClick
    \/ SeekLoadingTimeout
    \/ SeekReadDetail
    \/ SeekFilter
    \/ SeekInterval
    \/ SiteLoadMore
    \/ SiteLoaded
    \/ \E k \in DOMAIN list_finished, ok \in BOOLEAN : OnListFinished(k, ok)
    \/ \E k \in DOMAIN detail_requested, ok \in BOOLEAN : OnDetailFinished(k, ok)

(* ====================================================================== *)
(*                 Logic.evaluate and Logic._evaluator                    *)
(* ====================================================================== *)

BatchIds == 1..MaxBatch

\* what the agent and the database would do for a job, were they reached:
\* "ok": both calls return; "score_raises": evaluate_job raises;
\* "save_raises": JobEvaluation.save raises inside db.begin();
\* "commit_fails": the commit in db.begin() fails, which db.begin() logs and swallows
Outcomes == {"ok", "score_raises", "save_raises", "commit_fails"}

\* a task that has ended: by an exception or by cancellation
WorkerDone(w) == workers[w].pc \in {"raised", "cancelled"}

\* full() of a queue built without its maxsize
full_unbounded == FALSE

\* asyncio.Queue.full(): maxsize <= 0 means unbounded
full == IF concurrency <= 0 THEN FALSE ELSE Len(job_queue) >= concurrency

\* asyncio.Queue.task_done(): ValueError when called too often
task_done_raises == unfinished_tasks <= 0

\* task_done() that acknowledges every item at once
task_done_all == unfinished_tasks - unfinished_tasks

\* asyncio.Queue.task_done(): one unfinished task less
task_done == IF task_done_raises THEN unfinished_tasks ELSE unfinished_tasks - 1

\* join() that does not wait
join_returns_at_once == TRUE

\* asyncio.Queue.join() returns once every put item has been task_done()
join_returns == unfinished_tasks = 0

\* one more task than asked for
worker_count_plus_one == concurrency + 1

\* for _ in range(concurrency): one task per turn
worker_count == concurrency

\* gather() called without return_exceptions
return_exceptions_default == FALSE

\* asyncio.gather(*workers, return_exceptions=True)
return_exceptions == TRUE

\* gather() raises the first exception of its tasks unless return_exceptions
gather_raises == ~return_exceptions /\ \E w \in DOMAIN workers : workers[w].pc \in {"raised", "cancelled"}

\* Task.cancel(): no effect on a task that is done, else request cancellation
cancel(t) == IF t.pc \in {"raised", "cancelled"} THEN t ELSE [t EXCEPT !.must_cancel = TRUE]

\* for job in unevaluated_job_list: await job_queue.put(job)
EvaluatePut ==
    /\ eval_pc = "put"
    /\ put_ix < Len(unevaluated_job_list)
    /\ ~full
    /\ job_queue' = Append(job_queue, unevaluated_job_list[put_ix + 1])
    /\ unfinished_tasks' = unfinished_tasks + 1
    /\ put_ix' = put_ix + 1
    /\ UNCHANGED <<concurrency, unevaluated_job_list, llm_outcome, eval_pc, workers,
                   job_evaluation, get_calls, task_done_calls, save_calls>>
    /\ UNCHANGED <<seekVars, loginVars, dbVars, logicVars, ejVars>>

\* await job_queue.join(); for w in workers: w.cancel()
EvaluateJoin ==
    /\ eval_pc = "put"
    /\ put_ix = Len(unevaluated_job_list)
    /\ join_returns
    /\ workers' = [w \in DOMAIN workers |-> cancel(workers[w])]
    /\ eval_pc' = "gather"
    /\ UNCHANGED <<concurrency, unevaluated_job_list, llm_outcome, put_ix, job_queue,
                   unfinished_tasks, job_evaluation, get_calls, task_done_calls,
                   save_calls>>
    /\ UNCHANGED <<seekVars, loginVars, dbVars, logicVars, ejVars>>

\* await asyncio.gather(*workers, return_exceptions=True)
EvaluateGather ==
    /\ eval_pc = "gather"
    /\ \A w \in DOMAIN workers : WorkerDone(w)
    /\ eval_pc' = IF gather_raises THEN "raised" ELSE "returned"
    /\ UNCHANGED <<concurrency, unevaluated_job_list, llm_outcome, put_ix, job_queue,
                   unfinished_tasks, workers, job_evaluation, get_calls,
                   task_done_calls, save_calls>>
    /\ UNCHANGED <<seekVars, loginVars, dbVars, logicVars, ejVars>>

\* get() that leaves the item in the queue
WorkerGet_Peek(w) ==
    /\ workers[w].pc = "get"
    /\ ~workers[w].must_cancel
    /\ job_queue # <<>>
    /\ workers' = [workers EXCEPT ![w].pc = "evaluate_job", ![w].job = Head(job_queue)]
    /\ get_calls' = [get_calls EXCEPT ![Head(job_queue)] = @ + 1]
    /\ UNCHANGED <<concurrency, unevaluated_job_list, llm_outcome, eval_pc, put_ix,
                   job_queue, unfinished_tasks, job_evaluation, task_done_calls,
                   save_calls>>
    /\ UNCHANGED <<seekVars, loginVars, dbVars, logicVars, ejVars>>

\* job = await job_queue.get(), up to the call of evaluate_job
WorkerGet(w) ==
    /\ workers[w].pc = "get"
    /\ ~workers[w].must_cancel
    /\ job_queue # <<>>
    /\ workers' = [workers EXCEPT ![w].pc = "evaluate_job", ![w].job = Head(job_queue)]
    /\ job_queue' = Tail(job_queue)
    /\ get_calls' = [get_calls EXCEPT ![Head(job_queue)] = @ + 1]
    /\ UNCHANGED <<concurrency, unevaluated_job_list, llm_outcome, eval_pc, put_ix,
                   unfinished_tasks, job_evaluation, task_done_calls, save_calls>>
    /\ UNCHANGED <<seekVars, loginVars, dbVars, logicVars, ejVars>>

\* the exception ends the task without a finally clause
WorkerRaise_NoFinally(w, to) ==
    /\ UNCHANGED <<unfinished_tasks, task_done_calls>>
    /\ workers' = [workers EXCEPT ![w].pc = to, ![w].job = 0]

\* the finally clause, then the exception leaves the while loop and ends the task
WorkerRaise(w, to) ==
    /\ unfinished_tasks' = task_done
    /\ task_done_calls' = [task_done_calls EXCEPT ![workers[w].job] = @ + 1]
    /\ workers' = [workers EXCEPT ![w].pc = to, ![w].job = 0]

\* the parameters of evaluator.evaluate_job
evaluate_job_params == {"resume", "job"}

\* the keyword arguments of the call in Logic._evaluator
evaluator_call_kwargs == {"resume", "job", "model"}

\* a call with a keyword the function does not have raises TypeError
evaluate_job_call_raises == ~(evaluator_call_kwargs \subseteq evaluate_job_params)

\* the exception is caught inside the loop and the worker goes on
WorkerEvaluateJob_Caught(w) ==
    /\ workers[w].pc = "evaluate_job"
    /\ ~workers[w].must_cancel
    /\ unfinished_tasks' = task_done
    /\ task_done_calls' = [task_done_calls EXCEPT ![workers[w].job] = @ + 1]
    /\ workers' = [workers EXCEPT ![w].pc = "get", ![w].job = 0]
    /\ UNCHANGED <<concurrency, unevaluated_job_list, llm_outcome, eval_pc, put_ix,
                   job_queue, job_evaluation, get_calls, save_calls>>
    /\ UNCHANGED <<seekVars, loginVars, dbVars, logicVars, ejVars>>

\* evaluate_job(resume=..., job=..., model=...): the call raises, or the
\* coroutine returns an evaluation or raises
WorkerEvaluateJob(w) ==
    /\ workers[w].pc = "evaluate_job"
    /\ ~workers[w].must_cancel
    /\ IF evaluate_job_call_raises \/ llm_outcome[workers[w].job] = "score_raises"
       THEN WorkerRaise(w, "raised")
       ELSE /\ workers' = [workers EXCEPT ![w].pc = "save"]
            /\ UNCHANGED <<unfinished_tasks, task_done_calls>>
    /\ UNCHANGED <<concurrency, unevaluated_job_list, llm_outcome, eval_pc, put_ix,
                   job_queue, job_evaluation, get_calls, save_calls>>
    /\ UNCHANGED <<seekVars, loginVars, dbVars, logicVars, ejVars>>

\* async with db.begin(): await JobEvaluation.save(...); finally: task_done()
\* (a worker comes here only when the call of evaluate_job returned)
WorkerSave(w) ==
    /\ workers[w].pc = "save"
    /\ ~workers[w].must_cancel
    /\ IF llm_outcome[workers[w].job] = "save_raises"
       THEN /\ WorkerRaise(w, "raised")
            /\ UNCHANGED <<job_evaluation, save_calls>>
       ELSE /\ IF llm_outcome[workers[w].job] = "commit_fails"
               THEN UNCHANGED <<job_evaluation, save_calls>>
               ELSE /\ job_evaluation' = job_evaluation \cup {workers[w].job}
                    /\ save_calls' = [save_calls EXCEPT ![workers[w].job] = @ + 1]
            /\ task_done_calls' = [task_done_calls EXCEPT ![workers[w].job] = @ + 1]
            /\ unfinished_tasks' = task_done
            /\ workers' = [workers EXCEPT ![w].pc = IF task_done_raises THEN "raised" ELSE "get",
                                          ![w].job = 0]
    /\ UNCHANGED <<concurrency, unevaluated_job_list, llm_outcome, eval_pc, put_ix,
                   job_queue, get_calls>>
    /\ UNCHANGED <<seekVars, loginVars, dbVars, logicVars, ejVars>>

\* CancelledError is thrown into the worker at the await it is suspended on
WorkerCancelled(w) ==
    /\ workers[w].must_cancel
    /\ workers[w].pc \in {"get", "evaluate_job", "save"}
    /\ IF workers[w].pc = "get"
       THEN /\ workers' = [workers EXCEPT ![w].pc = "cancelled"]
            /\ UNCHANGED <<unfinished_tasks, task_done_calls>>
       ELSE WorkerRaise(w, IF task_done_raises THEN "raised" ELSE "cancelled")
    /\ UNCHANGED <<concurrency, unevaluated_job_list, llm_outcome, eval_pc, put_ix,
                   job_queue, job_evaluation, get_calls, save_calls>>
    /\ UNCHANGED <<seekVars, loginVars, dbVars, logicVars, ejVars>>

NextEvaluate ==
    \/ EvaluatePut
    \/ EvaluateJoin
    \/ EvaluateGather
    \/ \E w \in DOMAIN workers : WorkerGet(w)
    \/ \E w \in DOMAIN workers : WorkerEvaluateJob(w)
    \/ \E w \in DOMAIN workers : WorkerCancelled(w)

(* ====================================================================== *)
(*                           BossZhipin.login                             *)
(* ====================================================================== *)

\* Python's None, and a value that is present
None == <<>>
Some(v) == <<v>>

base_url == "https://www.zhipin.com"

\* _get_login_url
_get_login_url == "https://www.zhipin.com/web/user/?ka=header-login"

\* where the browser can be after goto(login url): the home page (as the
\* browser reports it), still the login page, or a city home page
PageUrls == {"https://www.zhipin.com/", _get_login_url, "https://www.zhipin.com/hangzhou/"}

\* yarl.URL(s): an absolute URL with an empty path has the path "/"
URL(s) == IF s = "https://www.zhipin.com" THEN "https://www.zhipin.com/" ELSE s

\* cookies as playwright reports them (ctx.cookies())
RawCookieUniverse ==
    { [name |-> "wt2", value |-> "token-old", domain |-> ".zhipin.com", path |-> "/",
       expires |-> 1800000000, httpOnly |-> TRUE, secure |-> TRUE, sameSite |-> "None"],
      [name |-> "wt2", value |-> "token-new", domain |-> ".zhipin.com", path |-> "/",
       expires |-> 1900000000, httpOnly |-> TRUE, secure |-> TRUE, sameSite |-> "None"],
      [name |-> "lastCity", value |-> "101210100", domain |-> "www.zhipin.com", path |-> "/",
       expires |-> -1, httpOnly |-> FALSE, secure |-> FALSE, sameSite |-> "Lax",
       partitionKey |-> "https://zhipin.com"],
      [name |-> "__zp_stoken__", value |-> "stoken", domain |-> ".zhipin.com", path |-> "/",
       expires |-> 1800000000, httpOnly |-> FALSE, secure |-> FALSE, sameSite |-> "Lax"] }

Get(d, k) == IF k \in DOMAIN d THEN Some(d[k]) ELSE None

\* _marshal_cookie raises BossZhipinError on a cookie without name or value
_marshal_cookie_raises(c) == "name" \notin DOMAIN c \/ "value" \notin DOMAIN c

\* _marshal_cookie: PlaywrightCookie -> db.Cookie (expires: Decimal(str(float)))
_marshal_cookie(c) ==
    [name |-> c.name,
     value |-> c.value,
     domain |-> Get(c, "domain"),
     path |-> Get(c, "path"),
     expires |-> Get(c, "expires"),
     http_only |-> Get(c, "httpOnly"),
     secure |-> Get(c, "secure"),
     same_site |-> Get(c, "sameSite"),
     partition_key |-> Get(c, "partitionKey")]

\* the db.Cookie attribute behind each optional SetCookieParam key
Attr(k) == CASE k = "domain" -> "domain"
             [] k = "path" -> "path"
             [] k = "expires" -> "expires"
             [] k = "httpOnly" -> "http_only"
             [] k = "secure" -> "secure"
             [] k = "sameSite" -> "same_site"
             [] k = "partitionKey" -> "partition_key"

OptionalKeys == {"domain", "path", "expires", "httpOnly", "secure", "sameSite", "partitionKey"}

\* _unmarshal_cookie: db.Cookie -> SetCookieParam, keys only for what is not None
_unmarshal_cookie(cookie) ==
    [k \in {"name", "value"} \cup {o \in OptionalKeys : cookie[Attr(o)] # None} |->
        IF k = "name" THEN cookie.name
        ELSE IF k = "value" THEN cookie.value
        ELSE cookie[Attr(k)][1]]

\* the browser identifies a cookie by name, domain and path
CookieKey(c) == <<c.name, Get(c, "domain"), Get(c, "path")>>

\* BrowserContext.add_cookies: set the cookies one after the other
RECURSIVE add_cookies(_, _)
add_cookies(jar, cs) ==
    IF cs = <<>> THEN jar
    ELSE add_cookies({c \in jar : CookieKey(c) # CookieKey(Head(cs))} \cup {Head(cs)}, Tail(cs))

\* BrowserContext.cookies(): the jar as a list
RECURSIVE ctx_cookies(_)
ctx_cookies(jar) ==
    IF jar = {} THEN <<>>
    ELSE LET c == CHOOSE x \in jar : TRUE IN <<c>> \o ctx_cookies(jar \ {c})

\* [self._unmarshal_cookie(cookie) for cookie in cookies]
unmarshal_all(cs) == [i \in DOMAIN cs |-> _unmarshal_cookie(cs[i])]

\* [self._marshal_cookie(cookie) for cookie in raw_cookies]
marshal_all(cs) == [i \in DOMAIN cs |-> _marshal_cookie(cs[i])]

\* the rows the cookie table can hold: marshalled browser cookies
SavedCookies == {_marshal_cookie(c) : c \in RawCookieUniverse}

\* lists of saved cookies, unique by the table's primary key (name, domain, path)
RECURSIVE SeqsUpTo(_, _)
SeqsUpTo(S, n) ==
    IF n = 0 THEN {<<>>}
    ELSE SeqsUpTo(S, n - 1) \cup {Append(sq, x) : sq \in SeqsUpTo(S, n - 1), x \in S}

CookieLists ==
    {sq \in SeqsUpTo(SavedCookies, MaxCookies) :
        \A i, j \in DOMAIN sq :
            i # j => <<sq[i].name, sq[i].domain, sq[i].path>> # <<sq[j].name, sq[j].domain, sq[j].path>>}

\* what the site can set on the surface where the user logs in
SiteCookieSets ==
    {S \in SUBSET RawCookieUniverse :
        S # {} /\ \A a, b \in S : CookieKey(a) = CookieKey(b) => a = b}

\* the comparison made on the strings, not on the URLs
logged_in_by_cookies_str == page_url = base_url

\* if URL(page.url) == self.base_url
logged_in_by_cookies == URL(page_url) = URL(base_url)

\* ctx.add_cookies(unmarshaled_cookies); page.goto(login url, wait_until="networkidle")
LoginGoto ==
    /\ login_pc = "start"
    /\ browser_ctx_cookies' = add_cookies(browser_ctx_cookies, unmarshal_all(cookies))
    /\ page_url' \in PageUrls
    /\ login_pc' = "check"
    /\ UNCHANGED <<headless, allow_to_show_login_page, cookies, visible_browsers,
                   wait_for_login_calls, raw_cookies, login_result, login_error>>
    /\ UNCHANGED <<evalVars, seekVars, dbVars, logicVars, ejVars>>

\* LoginCheck without the test of allow_to_show_login_page
LoginCheck_AllowIgnored ==
    /\ login_pc = "check"
    /\ IF logged_in_by_cookies
       THEN /\ login_result' = cookies
            /\ login_pc' = "returned"
            /\ UNCHANGED <<visible_browsers, wait_for_login_calls, login_error>>
       ELSE /\ visible_browsers' = IF headless THEN visible_browsers + 1 ELSE visible_browsers
            /\ wait_for_login_calls' =
                  Append(wait_for_login_calls, IF headless THEN "second" ELSE "inner")
            /\ login_pc' = "wait_for_login"
            /\ UNCHANGED <<login_result, login_error>>
    /\ UNCHANGED <<headless, allow_to_show_login_page, cookies, page_url,
                   browser_ctx_cookies, raw_cookies>>
    /\ UNCHANGED <<evalVars, seekVars, dbVars, logicVars, ejVars>>

\* lines 160-187: return the cookies given, or raise, or start _wait_for_login
\* on a second visible browser (headless) or on the inner browser
LoginCheck ==
    /\ login_pc = "check"
    /\ IF logged_in_by_cookies
       THEN /\ login_result' = cookies
            /\ login_pc' = "returned"
            /\ UNCHANGED <<visible_browsers, wait_for_login_calls, login_error>>
       ELSE IF ~allow_to_show_login_page
       THEN /\ login_error' = "BossZhipinError: login page show is disabled"
            /\ login_pc' = "raised"
            /\ UNCHANGED <<visible_browsers, wait_for_login_calls, login_result>>
       ELSE /\ visible_browsers' = IF headless THEN visible_browsers + 1 ELSE visible_browsers
            /\ wait_for_login_calls' =
                  Append(wait_for_login_calls, IF headless THEN "second" ELSE "inner")
            /\ login_pc' = "wait_for_login"
            /\ UNCHANGED <<login_result, login_error>>
    /\ UNCHANGED <<headless, allow_to_show_login_page, cookies, page_url,
                   browser_ctx_cookies, raw_cookies>>
    /\ UNCHANGED <<evalVars, seekVars, dbVars, logicVars, ejVars>>

\* LoginWaitForLogin that returns the cookies without importing them
LoginWaitForLogin_NoImport(site_cookies) ==
    /\ login_pc = "wait_for_login"
    /\ LET surface == IF headless THEN {} ELSE browser_ctx_cookies
           after_login == add_cookies(surface, ctx_cookies(site_cookies))
           read == ctx_cookies(after_login)
       IN  /\ raw_cookies' = read
           /\ browser_ctx_cookies' = IF headless THEN browser_ctx_cookies ELSE after_login
           /\ login_result' = marshal_all(read)
           /\ login_pc' = "returned"
           /\ UNCHANGED login_error
    /\ UNCHANGED <<headless, allow_to_show_login_page, cookies, page_url,
                   visible_browsers, wait_for_login_calls>>
    /\ UNCHANGED <<evalVars, seekVars, dbVars, logicVars, ejVars>>

\* _wait_for_login: .nav-figure becomes visible; return await ctx.cookies();
\* then lines 189-199: marshal, import into the inner browser, return
LoginWaitForLogin(site_cookies) ==
    /\ login_pc = "wait_for_login"
    /\ LET surface == IF headless THEN {} ELSE browser_ctx_cookies
           after_login == add_cookies(surface, ctx_cookies(site_cookies))
           read == ctx_cookies(after_login)
           inner == IF headless THEN browser_ctx_cookies ELSE after_login
       IN  IF \E i \in DOMAIN read : _marshal_cookie_raises(read[i])
           THEN /\ login_error' = "BossZhipinError: ill-formed cookie"
                /\ login_pc' = "raised"
                /\ browser_ctx_cookies' = inner
                /\ raw_cookies' = read
                /\ UNCHANGED login_result
           ELSE LET marshaled_cookies == marshal_all(read)
                IN  /\ raw_cookies' = read
                    /\ browser_ctx_cookies' =
                          add_cookies(inner, unmarshal_all(marshaled_cookies))
                    /\ login_result' = marshaled_cookies
                    /\ login_pc' = "returned"
                    /\ UNCHANGED login_error
    /\ UNCHANGED <<headless, allow_to_show_login_page, cookies, page_url,
                   visible_browsers, wait_for_login_calls>>
    /\ UNCHANGED <<evalVars, seekVars, dbVars, logicVars, ejVars>>

\* LoginTimeout whose timeout is swallowed: the cookies are exported all the same
LoginTimeout_Swallowed ==
    /\ login_pc = "wait_for_login"
    /\ LET read == ctx_cookies(IF headless THEN {} ELSE browser_ctx_cookies)
       IN  /\ raw_cookies' = read
           /\ login_result' = marshal_all(read)
           /\ browser_ctx_cookies' = add_cookies(browser_ctx_cookies,
                                                unmarshal_all(marshal_all(read)))
    /\ login_error' = "BossZhipinError: timeout while waiting for user login"
    /\ login_pc' = "returned"
    /\ UNCHANGED <<headless, allow_to_show_login_page, cookies, page_url,
                   visible_browsers, wait_for_login_calls>>
    /\ UNCHANGED <<evalVars, seekVars, dbVars, logicVars, ejVars>>

\* _wait_for_login: wait_for_selector times out
LoginTimeout ==
    /\ login_pc = "wait_for_login"
    /\ login_error' = "BossZhipinError: timeout while waiting for user login"
    /\ login_pc' = "raised"
    /\ UNCHANGED <<headless, allow_to_show_login_page, cookies, page_url,
                   browser_ctx_cookies, visible_browsers, wait_for_login_calls,
                   raw_cookies, login_result>>
    /\ UNCHANGED <<evalVars, seekVars, dbVars, logicVars, ejVars>>

NextLogin ==
    \/ LoginGoto
    \/ LoginCheck
    \/ \E site_cookies \in SiteCookieSets : LoginWaitForLogin(site_cookies)
    \/ LoginTimeout

(* ====================================================================== *)
(*                 db.Cookie: overwrite_all and fetch_all                 *)
(* ====================================================================== *)

\* longest sequence of calls made on the cookie table
MaxDbOps == 3

\* primary key of table cookie
CookiePk(c) == <<c.name, c.domain, c.path>>

\* what table cookie can hold: rows with distinct primary keys
CookieTables ==
    {T \in SUBSET SavedCookies : \A a, b \in T : CookiePk(a) = CookiePk(b) => a = b}

\* session.flush(cookies) fails with an IntegrityError on a repeated primary key
overwrite_all_raises(cs) ==
    \E i, j \in DOMAIN cs : i # j /\ CookiePk(cs[i]) = CookiePk(cs[j])

\* overwrite_all that upserts the cookies without deleting the old rows
overwrite_all_NoDelete(table, cs) ==
    {r \in table : \A i \in DOMAIN cs : CookiePk(cs[i]) # CookiePk(r)}
        \cup {cs[i] : i \in DOMAIN cs}

\* Cookie.overwrite_all: sa.delete(cls), then add_all(cookies) and flush
overwrite_all(table, cs) ==
    LET deleted == {r \in table : FALSE}
    IN  deleted \cup {cs[i] : i \in DOMAIN cs}

\* Cookie.fetch_all: sa.select(cls), the rows in the order the table gives them
RECURSIVE fetch_all(_)
fetch_all(table) ==
    IF table = {} THEN <<>>
    ELSE LET c == CHOOSE x \in table : TRUE IN <<c>> \o fetch_all(table \ {c})

\* async with db.begin(): await Cookie.overwrite_all(db.get(), cs)
\* (an exception rolls the transaction back)
DbOverwriteAll(cs) ==
    /\ Len(db_ops) < MaxDbOps
    /\ IF overwrite_all_raises(cs)
       THEN /\ db_ops' = Append(db_ops, "overwrite_all: IntegrityError")
            /\ UNCHANGED <<cookie_table, overwritten, deleted_rows>>
       ELSE /\ cookie_table' = overwrite_all(cookie_table, cs)
            /\ overwritten' = cs
            /\ deleted_rows' = cookie_table
            /\ db_ops' = Append(db_ops, "overwrite_all")
    /\ UNCHANGED <<job_detail_table, job_count, fetched, selected>>
    /\ UNCHANGED <<beginVars, evalVars, seekVars, loginVars, logicVars, ejVars>>

\* async with db.begin(): saved_cookies = await Cookie.fetch_all(db.get())
DbFetchAll ==
    /\ Len(db_ops) < MaxDbOps
    /\ fetched' = fetch_all(cookie_table)
    /\ db_ops' = Append(db_ops, "fetch_all")
    /\ UNCHANGED <<cookie_table, job_detail_table, job_count, overwritten, deleted_rows,
                   selected>>
    /\ UNCHANGED <<beginVars, evalVars, seekVars, loginVars, logicVars, ejVars>>

NextCookie ==
    \/ \E cs \in SeqsUpTo(SavedCookies, MaxCookies) : DbOverwriteAll(cs)
    \/ DbFetchAll

(* ====================================================================== *)
(*           Logic.evaluate: the selection of unevaluated jobs            *)
(* ====================================================================== *)

\* what table job_detail can hold: per job_encrypt_id at most one row
JobDetailTables ==
    {T \in SUBSET [job_encrypt_id : BatchIds, created_at : 1..MaxBatch] :
        \A a, b \in T : a.job_encrypt_id = b.job_encrypt_id => a = b}

\* the join without its WHERE clause
anti_join_NoWhere(details, evaluations) == details

\* JobDetail LEFT OUTER JOIN JobEvaluation ... WHERE JobEvaluation.job_encrypt_id IS NULL
anti_join(details, evaluations) ==
    {r \in details : r.job_encrypt_id \notin evaluations}

\* ORDER BY created_at ASC: every order of the rows that ascends in created_at
order_by_created_at(rows) ==
    {sq \in [1..Cardinality(rows) -> rows] :
        /\ \A i, j \in 1..Cardinality(rows) : i # j => sq[i] # sq[j]
        /\ \A i, j \in 1..Cardinality(rows) : i < j => sq[i].created_at <= sq[j].created_at}

\* LIMIT n
limit(sq, n) == SubSeq(sq, 1, Min(n, Len(sq)))

\* lines 61-78: the results the query can give
select_unevaluated(details, evaluations, n) ==
    {limit(sq, n) : sq \in order_by_created_at(anti_join(details, evaluations))}

\* async with db.begin(): unevaluated_job_list = (await db.get().execute(...)).scalars().all()
EvaluateSelect ==
    /\ db_ops = <<>>
    /\ selected' \in select_unevaluated(job_detail_table, job_evaluation, job_count)
    /\ db_ops' = <<"select">>
    /\ UNCHANGED <<cookie_table, job_detail_table, job_count, overwritten, deleted_rows,
                   fetched>>
    /\ UNCHANGED <<beginVars, evalVars, seekVars, loginVars, logicVars, ejVars>>

NextSelect == EvaluateSelect

(* ====================================================================== *)
(*                              Logic.seek                                *)
(* ====================================================================== *)

\* the keyword parameters of BossZhipin.__init__
BossZhipin_init_params ==
    {"base_url", "headless", "allow_to_show_login_page", "wait_for_login_timeout_in_ms"}

\* the keyword arguments of the call in Logic.seek
seek_init_kwargs == {"debug", "headless"}

\* a call with a keyword the function does not have raises TypeError
BossZhipin_init_raises == ~(seek_init_kwargs \subseteq BossZhipin_init_params)

\* Logic.seek up to its first await that can suspend: BossZhipin(debug=...,
\* headless=...) raises, else the cookies are fetched and login is called
LogicSeek ==
    /\ logic_pc = "start"
    /\ IF BossZhipin_init_raises
       THEN /\ logic_pc' = "raised"
            /\ logic_error' = "TypeError"
            /\ UNCHANGED <<saved_cookies, fetched, db_ops>>
       ELSE /\ saved_cookies' = Some(fetch_all(cookie_table))
            /\ fetched' = fetch_all(cookie_table)
            /\ db_ops' = Append(db_ops, "fetch_all")
            /\ logic_pc' = "login"
            /\ UNCHANGED logic_error
    /\ UNCHANGED <<debug, cookie_table, job_detail_table, job_count, overwritten,
                   deleted_rows, selected>>
    /\ UNCHANGED <<beginVars, evalVars, seekVars, loginVars, ejVars>>

NextLogicSeek == LogicSeek

(* ====================================================================== *)
(*                        evaluator.evaluate_job                          *)
(* ====================================================================== *)

\* longest stream of messages of one run of the agent
MaxMessages == 3

\* the keys of Evaluation, in the order of the class
EvaluationKeys ==
    << "technology_match_score", "technology_match_reason",
       "project_experience_match_score", "project_experience_match_reason",
       "industry_experience_match_score", "industry_experience_match_reason",
       "level_match_score", "level_match_reason",
       "growth_potential_score", "growth_potential_reason",
       "technical_depth_potential_score", "technical_depth_potential_reason" >>

ScoreKeys == {EvaluationKeys[i] : i \in {1, 3, 5, 7, 9, 11}}

\* an output of the model that has the first n keys; v tells the outputs apart
\* (a value is written with its type: Decimal(0) is <<"Decimal", 0>>, the
\* empty string is <<"str", 0>>)
Output(n, v) ==
    [k \in {EvaluationKeys[i] : i \in 1..n} |-> IF k \in ScoreKeys THEN <<"Decimal", v>>
                                                 ELSE <<"str", v>>]

\* what a message can be: its output so far, and whether it is a well formed
\* Evaluation, one only when read as partial, or none at all
Messages ==
    [output : {Output(n, v) : n \in {1, Len(EvaluationKeys)}, v \in 1..2},
     form   : {"well_formed", "partial_only", "malformed"}]

\* result.validate_structured_output(message, allow_partial=...) raises ValidationError
validate_raises(message, allow_partial) ==
    \/ message.form = "malformed"
    \/ message.form = "partial_only" /\ ~allow_partial

\* evaluation.get(key, default)
get(d, key, default) == IF key \in DOMAIN d THEN d[key] ELSE default

\* the job that is evaluated
job_encrypt_id == 1

\* JobEvaluation(job_encrypt_id=..., technology_match_score=evaluation.get(...), ...)
JobEvaluation(e) ==
    [k \in {"job_encrypt_id"} \cup {EvaluationKeys[i] : i \in DOMAIN EvaluationKeys} |->
        IF k = "job_encrypt_id" THEN <<"str", job_encrypt_id>>
        ELSE IF k \in ScoreKeys THEN get(e, k, <<"Decimal", 0>>)
        ELSE get(e, k, <<"str", 0>>)]

\* one turn of: async for message, is_last in result.stream_structured()
EvaluateJobMessage ==
    /\ ej_pc = "stream"
    /\ ej_ix < Len(stream)
    /\ ej_ix' = ej_ix + 1
    /\ LET message == stream[ej_ix + 1]
           is_last == (ej_ix + 1 = Len(stream))
       IN  IF validate_raises(message, ~is_last)
           THEN UNCHANGED evaluation
           ELSE evaluation' = Some(message.output)
    /\ UNCHANGED <<stream, ej_pc, ej_result, ej_error>>
    /\ UNCHANGED <<evalVars, seekVars, loginVars, dbVars, logicVars>>

\* the stream is over: raise EvaluatorError or return the JobEvaluation
EvaluateJobReturn ==
    /\ ej_pc = "stream"
    /\ ej_ix = Len(stream)
    /\ IF evaluation = None
       THEN /\ ej_pc' = "raised"
            /\ ej_error' = "EvaluatorError: LLM cannot output well-formed result"
            /\ UNCHANGED ej_result
       ELSE /\ ej_pc' = "returned"
            /\ ej_result' = Some(JobEvaluation(evaluation[1]))
            /\ UNCHANGED ej_error
    /\ UNCHANGED <<stream, ej_ix, evaluation>>
    /\ UNCHANGED <<evalVars, seekVars, loginVars, dbVars, logicVars>>

NextEvaluateJob ==
    \/ EvaluateJobMessage
    \/ EvaluateJobReturn

(* ====================================================================== *)
(*          DatabaseContext.begin around JobDetail.save (Logic.seek)      *)
(* ====================================================================== *)

\* DatabaseContext.get raises RuntimeError when no session is set
get_raises == session_ctx = None

\* session.merge(job) and the commit: insert the row or replace the row of its key
merge(table, rows) ==
    {r \in table : \A n \in rows : n.job_encrypt_id # r.job_encrypt_id} \cup rows

\* session = self.session_maker(); token = self.session_ctx.set(session)
BeginEnter ==
    /\ begin_pc = "start"
    /\ token' = session_ctx
    /\ session_ctx' = Some("session")
    /\ store_at_entry' = job_detail_table
    /\ begin_pc' = "body"
    /\ UNCHANGED <<session_rows, begin_body, begin_error>>
    /\ UNCHANGED <<cookie_table, job_detail_table, job_count, db_ops, overwritten,
                   deleted_rows, fetched, selected>>
    /\ UNCHANGED <<evalVars, seekVars, loginVars, logicVars, ejVars>>

\* the body: await JobDetail.save(db.get(), job), which merges and flushes;
\* the body ends normally or by an exception
BeginBody ==
    /\ begin_pc = "body"
    /\ IF get_raises
       THEN /\ begin_pc' = "except"
            /\ begin_error' = "RuntimeError"
            /\ UNCHANGED session_rows
       ELSE /\ session_rows' = merge(session_rows, {begin_body.row})
            /\ begin_pc' = IF begin_body.raises THEN "except" ELSE "finally"
            /\ begin_error' = IF begin_body.raises THEN "Exception" ELSE begin_error
    /\ UNCHANGED <<session_ctx, token, begin_body, store_at_entry>>
    /\ UNCHANGED <<cookie_table, job_detail_table, job_count, db_ops, overwritten,
                   deleted_rows, fetched, selected>>
    /\ UNCHANGED <<evalVars, seekVars, loginVars, logicVars, ejVars>>

\* except BaseException: await session.rollback(); raise
BeginExcept ==
    /\ begin_pc = "except"
    /\ session_rows' = {}
    /\ begin_pc' = "finally"
    /\ UNCHANGED <<session_ctx, token, begin_body, begin_error, store_at_entry>>
    /\ UNCHANGED <<cookie_table, job_detail_table, job_count, db_ops, overwritten,
                   deleted_rows, fetched, selected>>
    /\ UNCHANGED <<evalVars, seekVars, loginVars, logicVars, ejVars>>

\* finally: try: await session.commit() except BaseException: log;
\* self.session_ctx.reset(token); await session.close()
BeginFinally ==
    /\ begin_pc = "finally"
    /\ job_detail_table' = IF begin_body.commit_raises THEN job_detail_table
                           ELSE merge(job_detail_table, session_rows)
    /\ session_rows' = {}
    /\ session_ctx' = token
    /\ begin_pc' = IF begin_error = "none" THEN "returned" ELSE "raised"
    /\ UNCHANGED <<token, begin_body, begin_error, store_at_entry>>
    /\ UNCHANGED <<cookie_table, job_count, db_ops, overwritten, deleted_rows, fetched,
                   selected>>
    /\ UNCHANGED <<evalVars, seekVars, loginVars, logicVars, ejVars>>

NextBegin ==
    \/ BeginEnter
    \/ BeginBody
    \/ BeginExcept
    \/ BeginFinally

(* ====================================================================== *)
(*                          the specifications                            *)
(* ====================================================================== *)

\* the seek_jobs generator has been created and not yet advanced
InitSeekJobs ==
    /\ count \in 0..MaxCount
    /\ \E n \in 0..MaxJobs :
          /\ site_jobs \in [1..n -> ActiveTimeDescs]
          /\ filter_func \in {[default |-> TRUE, accepts |-> {}]}
                               \cup {[default |-> FALSE, accepts |-> a] : a \in SUBSET (1..n)}
    /\ seek_pc = "start"
    /\ queried_count = 0
    /\ job_list_ix = 0
    /\ encrypt_job_id_to_job_summary = <<>>
    /\ job_detail_list = <<>>
    /\ job_detail = 0
    /\ yielded = <<>>
    /\ seek_error = "none"
    /\ rendered = 0
    /\ loading = FALSE
    /\ list_finished = <<>>
    /\ detail_requested = <<>>
    /\ handler_errors = 0
    /\ clicked = <<>>
    /\ interval_calls = 0
    \* no evaluation is running
    /\ concurrency = 1
    /\ unevaluated_job_list = <<>>
    /\ llm_outcome = <<>>
    /\ eval_pc = "idle"
    /\ put_ix = 0
    /\ job_queue = <<>>
    /\ unfinished_tasks = 0
    /\ workers = <<>>
    /\ job_evaluation = {}
    /\ get_calls = [j \in BatchIds |-> 0]
    /\ task_done_calls = [j \in BatchIds |-> 0]
    /\ save_calls = [j \in BatchIds |-> 0]
    \* no login is running
    /\ headless = TRUE
    /\ allow_to_show_login_page = TRUE
    /\ cookies = <<>>
    /\ login_pc = "idle"
    /\ page_url = "about:blank"
    /\ browser_ctx_cookies = {}
    /\ visible_browsers = 0
    /\ wait_for_login_calls = <<>>
    /\ raw_cookies = <<>>
    /\ login_result = <<>>
    /\ login_error = "none"
    \* the tables are not used
    /\ cookie_table = {}
    /\ job_detail_table = {}
    /\ job_count = 0
    /\ db_ops = <<>>
    /\ overwritten = <<>>
    /\ deleted_rows = {}
    /\ fetched = <<>>
    /\ selected = <<>>
    \* no db.begin() block is open
    /\ session_ctx = <<>>
    /\ token = <<>>
    /\ session_rows = {}
    /\ begin_body = [row |-> [job_encrypt_id |-> 1, created_at |-> 1],
                     raises |-> FALSE, commit_raises |-> FALSE]
    /\ begin_pc = "idle"
    /\ begin_error = "none"
    /\ store_at_entry = {}
    \* no Logic.seek is running
    /\ debug = FALSE
    /\ logic_pc = "idle"
    /\ logic_error = "none"
    /\ saved_cookies = None
    \* no evaluate_job is running
    /\ stream = <<>>
    /\ ej_pc = "idle"
    /\ ej_ix = 0
    /\ evaluation = None
    /\ ej_result = None
    /\ ej_error = "none"

\* Logic.evaluate has selected the batch, built the queue and created the workers
InitEvaluate ==
    /\ concurrency \in 1..MaxConcurrency
    /\ \E n \in 0..MaxBatch :
          /\ unevaluated_job_list = [i \in 1..n |-> i]
          /\ llm_outcome \in [1..n -> Outcomes]
    /\ eval_pc = "put"
    /\ put_ix = 0
    /\ job_queue = <<>>
    /\ unfinished_tasks = 0
    /\ workers = [w \in 1..worker_count |-> [pc |-> "get", job |-> 0, must_cancel |-> FALSE]]
    /\ job_evaluation = {}
    /\ get_calls = [j \in BatchIds |-> 0]
    /\ task_done_calls = [j \in BatchIds |-> 0]
    /\ save_calls = [j \in BatchIds |-> 0]
    \* no seek_jobs generator is running
    /\ count = 0
    /\ filter_func = [default |-> TRUE, accepts |-> {}]
    /\ site_jobs = <<>>
    /\ seek_pc = "idle"
    /\ queried_count = 0
    /\ job_list_ix = 0
    /\ encrypt_job_id_to_job_summary = <<>>
    /\ job_detail_list = <<>>
    /\ job_detail = 0
    /\ yielded = <<>>
    /\ seek_error = "none"
    /\ rendered = 0
    /\ loading = FALSE
    /\ list_finished = <<>>
    /\ detail_requested = <<>>
    /\ handler_errors = 0
    /\ clicked = <<>>
    /\ interval_calls = 0
    \* no login is running
    /\ headless = TRUE
    /\ allow_to_show_login_page = TRUE
    /\ cookies = <<>>
    /\ login_pc = "idle"
    /\ page_url = "about:blank"
    /\ browser_ctx_cookies = {}
    /\ visible_browsers = 0
    /\ wait_for_login_calls = <<>>
    /\ raw_cookies = <<>>
    /\ login_result = <<>>
    /\ login_error = "none"
    \* the tables are not used
    /\ cookie_table = {}
    /\ job_detail_table = {}
    /\ job_count = 0
    /\ db_ops = <<>>
    /\ overwritten = <<>>
    /\ deleted_rows = {}
    /\ fetched = <<>>
    /\ selected = <<>>
    \* no db.begin() block is open
    /\ session_ctx = <<>>
    /\ token = <<>>
    /\ session_rows = {}
    /\ begin_body = [row |-> [job_encrypt_id |-> 1, created_at |-> 1],
                     raises |-> FALSE, commit_raises |-> FALSE]
    /\ begin_pc = "idle"
    /\ begin_error = "none"
    /\ store_at_entry = {}
    \* no Logic.seek is running
    /\ debug = FALSE
    /\ logic_pc = "idle"
    /\ logic_error = "none"
    /\ saved_cookies = None
    \* no evaluate_job is running
    /\ stream = <<>>
    /\ ej_pc = "idle"
    /\ ej_ix = 0
    /\ evaluation = None
    /\ ej_result = None
    /\ ej_error = "none"

\* a BossZhipin has been entered and login(cookies) is called
InitLogin ==
    /\ headless \in BOOLEAN
    /\ allow_to_show_login_page \in BOOLEAN
    /\ cookies \in CookieLists
    /\ login_pc = "start"
    /\ page_url = "about:blank"
    /\ browser_ctx_cookies = {}
    /\ visible_browsers = 0
    /\ wait_for_login_calls = <<>>
    /\ raw_cookies = <<>>
    /\ login_result = <<>>
    /\ login_error = "none"
    \* no evaluation is running
    /\ concurrency = 1
    /\ unevaluated_job_list = <<>>
    /\ llm_outcome = <<>>
    /\ eval_pc = "idle"
    /\ put_ix = 0
    /\ job_queue = <<>>
    /\ unfinished_tasks = 0
    /\ workers = <<>>
    /\ job_evaluation = {}
    /\ get_calls = [j \in BatchIds |-> 0]
    /\ task_done_calls = [j \in BatchIds |-> 0]
    /\ save_calls = [j \in BatchIds |-> 0]
    \* no seek_jobs generator is running
    /\ count = 0
    /\ filter_func = [default |-> TRUE, accepts |-> {}]
    /\ site_jobs = <<>>
    /\ seek_pc = "idle"
    /\ queried_count = 0
    /\ job_list_ix = 0
    /\ encrypt_job_id_to_job_summary = <<>>
    /\ job_detail_list = <<>>
    /\ job_detail = 0
    /\ yielded = <<>>
    /\ seek_error = "none"
    /\ rendered = 0
    /\ loading = FALSE
    /\ list_finished = <<>>
    /\ detail_requested = <<>>
    /\ handler_errors = 0
    /\ clicked = <<>>
    /\ interval_calls = 0
    \* the cookies were fetched from the cookie table
    /\ cookie_table = {cookies[i] : i \in DOMAIN cookies}
    /\ job_detail_table = {}
    /\ job_count = 0
    /\ db_ops = <<>>
    /\ overwritten = <<>>
    /\ deleted_rows = {}
    /\ fetched = <<>>
    /\ selected = <<>>
    \* no db.begin() block is open
    /\ session_ctx = <<>>
    /\ token = <<>>
    /\ session_rows = {}
    /\ begin_body = [row |-> [job_encrypt_id |-> 1, created_at |-> 1],
                     raises |-> FALSE, commit_raises |-> FALSE]
    /\ begin_pc = "idle"
    /\ begin_error = "none"
    /\ store_at_entry = {}
    \* no Logic.seek is running
    /\ debug = FALSE
    /\ logic_pc = "idle"
    /\ logic_error = "none"
    /\ saved_cookies = None
    \* no evaluate_job is running
    /\ stream = <<>>
    /\ ej_pc = "idle"
    /\ ej_ix = 0
    /\ evaluation = None
    /\ ej_result = None
    /\ ej_error = "none"

SpecLogin == InitLogin /\ [][NextLogin]_vars

SpecSeekJobs == InitSeekJobs /\ [][NextSeekJobs]_vars

SpecEvaluate == InitEvaluate /\ [][NextEvaluate]_vars

\* the event loop runs every task that is ready; every LLM and database call completes
FairEvaluate ==
    /\ WF_vars(EvaluatePut)
    /\ WF_vars(EvaluateJoin)
    /\ WF_vars(EvaluateGather)
    /\ \A w \in 1..MaxConcurrency :
          /\ WF_vars(w \in DOMAIN workers /\ WorkerGet(w))
          /\ WF_vars(w \in DOMAIN workers /\ WorkerEvaluateJob(w))
          /\ WF_vars(w \in DOMAIN workers /\ WorkerCancelled(w))

FairSpecEvaluate == SpecEvaluate /\ FairEvaluate

InitCookie ==
    \* no login is running
    /\ headless = TRUE
    /\ allow_to_show_login_page = TRUE
    /\ cookies = <<>>
    /\ login_pc = "idle"
    /\ page_url = "about:blank"
    /\ browser_ctx_cookies = {}
    /\ visible_browsers = 0
    /\ wait_for_login_calls = <<>>
    /\ raw_cookies = <<>>
    /\ login_result = <<>>
    /\ login_error = "none"
    \* no evaluation is running
    /\ concurrency = 1
    /\ unevaluated_job_list = <<>>
    /\ llm_outcome = <<>>
    /\ eval_pc = "idle"
    /\ put_ix = 0
    /\ job_queue = <<>>
    /\ unfinished_tasks = 0
    /\ workers = <<>>
    /\ job_evaluation = {}
    /\ get_calls = [j \in BatchIds |-> 0]
    /\ task_done_calls = [j \in BatchIds |-> 0]
    /\ save_calls = [j \in BatchIds |-> 0]
    \* no seek_jobs generator is running
    /\ count = 0
    /\ filter_func = [default |-> TRUE, accepts |-> {}]
    /\ site_jobs = <<>>
    /\ seek_pc = "idle"
    /\ queried_count = 0
    /\ job_list_ix = 0
    /\ encrypt_job_id_to_job_summary = <<>>
    /\ job_detail_list = <<>>
    /\ job_detail = 0
    /\ yielded = <<>>
    /\ seek_error = "none"
    /\ rendered = 0
    /\ loading = FALSE
    /\ list_finished = <<>>
    /\ detail_requested = <<>>
    /\ handler_errors = 0
    /\ clicked = <<>>
    /\ interval_calls = 0
    \* the cookie table holds any rows with distinct primary keys
    /\ cookie_table \in CookieTables
    /\ job_detail_table = {}
    /\ job_count = 0
    /\ db_ops = <<>>
    /\ overwritten = <<>>
    /\ deleted_rows = {}
    /\ fetched = <<>>
    /\ selected = <<>>
    \* no db.begin() block is open
    /\ session_ctx = <<>>
    /\ token = <<>>
    /\ session_rows = {}
    /\ begin_body = [row |-> [job_encrypt_id |-> 1, created_at |-> 1],
                     raises |-> FALSE, commit_raises |-> FALSE]
    /\ begin_pc = "idle"
    /\ begin_error = "none"
    /\ store_at_entry = {}
    \* no Logic.seek is running
    /\ debug = FALSE
    /\ logic_pc = "idle"
    /\ logic_error = "none"
    /\ saved_cookies = None
    \* no evaluate_job is running
    /\ stream = <<>>
    /\ ej_pc = "idle"
    /\ ej_ix = 0
    /\ evaluation = None
    /\ ej_result = None
    /\ ej_error = "none"

SpecCookie == InitCookie /\ [][NextCookie]_vars

InitSelect ==
    \* no login is running
    /\ headless = TRUE
    /\ allow_to_show_login_page = TRUE
    /\ cookies = <<>>
    /\ login_pc = "idle"
    /\ page_url = "about:blank"
    /\ browser_ctx_cookies = {}
    /\ visible_browsers = 0
    /\ wait_for_login_calls = <<>>
    /\ raw_cookies = <<>>
    /\ login_result = <<>>
    /\ login_error = "none"
    \* no worker is running, any evaluations are stored
    /\ concurrency = 1
    /\ unevaluated_job_list = <<>>
    /\ llm_outcome = <<>>
    /\ eval_pc = "idle"
    /\ put_ix = 0
    /\ job_queue = <<>>
    /\ unfinished_tasks = 0
    /\ workers = <<>>
    /\ job_evaluation \in SUBSET BatchIds
    /\ get_calls = [j \in BatchIds |-> 0]
    /\ task_done_calls = [j \in BatchIds |-> 0]
    /\ save_calls = [j \in BatchIds |-> 0]
    \* no seek_jobs generator is running
    /\ count = 0
    /\ filter_func = [default |-> TRUE, accepts |-> {}]
    /\ site_jobs = <<>>
    /\ seek_pc = "idle"
    /\ queried_count = 0
    /\ job_list_ix = 0
    /\ encrypt_job_id_to_job_summary = <<>>
    /\ job_detail_list = <<>>
    /\ job_detail = 0
    /\ yielded = <<>>
    /\ seek_error = "none"
    /\ rendered = 0
    /\ loading = FALSE
    /\ list_finished = <<>>
    /\ detail_requested = <<>>
    /\ handler_errors = 0
    /\ clicked = <<>>
    /\ interval_calls = 0
    \* the job tables hold any rows, job_count is any limit
    /\ cookie_table = {}
    /\ job_detail_table \in JobDetailTables
    /\ job_count \in 0..MaxBatch
    /\ db_ops = <<>>
    /\ overwritten = <<>>
    /\ deleted_rows = {}
    /\ fetched = <<>>
    /\ selected = <<>>
    \* no db.begin() block is open
    /\ session_ctx = <<>>
    /\ token = <<>>
    /\ session_rows = {}
    /\ begin_body = [row |-> [job_encrypt_id |-> 1, created_at |-> 1],
                     raises |-> FALSE, commit_raises |-> FALSE]
    /\ begin_pc = "idle"
    /\ begin_error = "none"
    /\ store_at_entry = {}
    \* no Logic.seek is running
    /\ debug = FALSE
    /\ logic_pc = "idle"
    /\ logic_error = "none"
    /\ saved_cookies = None
    \* no evaluate_job is running
    /\ stream = <<>>
    /\ ej_pc = "idle"
    /\ ej_ix = 0
    /\ evaluation = None
    /\ ej_result = None
    /\ ej_error = "none"

SpecSelect == InitSelect /\ [][NextSelect]_vars

InitLogicSeek ==
    \* no login is running
    /\ headless \in BOOLEAN
    /\ allow_to_show_login_page = TRUE
    /\ cookies = <<>>
    /\ login_pc = "idle"
    /\ page_url = "about:blank"
    /\ browser_ctx_cookies = {}
    /\ visible_browsers = 0
    /\ wait_for_login_calls = <<>>
    /\ raw_cookies = <<>>
    /\ login_result = <<>>
    /\ login_error = "none"
    \* no evaluation is running
    /\ concurrency = 1
    /\ unevaluated_job_list = <<>>
    /\ llm_outcome = <<>>
    /\ eval_pc = "idle"
    /\ put_ix = 0
    /\ job_queue = <<>>
    /\ unfinished_tasks = 0
    /\ workers = <<>>
    /\ job_evaluation = {}
    /\ get_calls = [j \in BatchIds |-> 0]
    /\ task_done_calls = [j \in BatchIds |-> 0]
    /\ save_calls = [j \in BatchIds |-> 0]
    \* no seek_jobs generator is running
    /\ count = 0
    /\ filter_func = [default |-> TRUE, accepts |-> {}]
    /\ site_jobs = <<>>
    /\ seek_pc = "idle"
    /\ queried_count = 0
    /\ job_list_ix = 0
    /\ encrypt_job_id_to_job_summary = <<>>
    /\ job_detail_list = <<>>
    /\ job_detail = 0
    /\ yielded = <<>>
    /\ seek_error = "none"
    /\ rendered = 0
    /\ loading = FALSE
    /\ list_finished = <<>>
    /\ detail_requested = <<>>
    /\ handler_errors = 0
    /\ clicked = <<>>
    /\ interval_calls = 0
    \* the cookie table holds any rows with distinct primary keys
    /\ cookie_table \in CookieTables
    /\ job_detail_table = {}
    /\ job_count \in 0..MaxCount
    /\ db_ops = <<>>
    /\ overwritten = <<>>
    /\ deleted_rows = {}
    /\ fetched = <<>>
    /\ selected = <<>>
    \* no db.begin() block is open
    /\ session_ctx = <<>>
    /\ token = <<>>
    /\ session_rows = {}
    /\ begin_body = [row |-> [job_encrypt_id |-> 1, created_at |-> 1],
                     raises |-> FALSE, commit_raises |-> FALSE]
    /\ begin_pc = "idle"
    /\ begin_error = "none"
    /\ store_at_entry = {}
    \* Logic.seek(debug, headless, from_url, job_count) is called
    /\ debug \in BOOLEAN
    /\ logic_pc = "start"
    /\ logic_error = "none"
    /\ saved_cookies = None
    \* no evaluate_job is running
    /\ stream = <<>>
    /\ ej_pc = "idle"
    /\ ej_ix = 0
    /\ evaluation = None
    /\ ej_result = None
    /\ ej_error = "none"

SpecLogicSeek == InitLogicSeek /\ [][NextLogicSeek]_vars

InitEvaluateJob ==
    \* no login is running
    /\ headless = TRUE
    /\ allow_to_show_login_page = TRUE
    /\ cookies = <<>>
    /\ login_pc = "idle"
    /\ page_url = "about:blank"
    /\ browser_ctx_cookies = {}
    /\ visible_browsers = 0
    /\ wait_for_login_calls = <<>>
    /\ raw_cookies = <<>>
    /\ login_result = <<>>
    /\ login_error = "none"
    \* no evaluation is running
    /\ concurrency = 1
    /\ unevaluated_job_list = <<>>
    /\ llm_outcome = <<>>
    /\ eval_pc = "idle"
    /\ put_ix = 0
    /\ job_queue = <<>>
    /\ unfinished_tasks = 0
    /\ workers = <<>>
    /\ job_evaluation = {}
    /\ get_calls = [j \in BatchIds |-> 0]
    /\ task_done_calls = [j \in BatchIds |-> 0]
    /\ save_calls = [j \in BatchIds |-> 0]
    \* no seek_jobs generator is running
    /\ count = 0
    /\ filter_func = [default |-> TRUE, accepts |-> {}]
    /\ site_jobs = <<>>
    /\ seek_pc = "idle"
    /\ queried_count = 0
    /\ job_list_ix = 0
    /\ encrypt_job_id_to_job_summary = <<>>
    /\ job_detail_list = <<>>
    /\ job_detail = 0
    /\ yielded = <<>>
    /\ seek_error = "none"
    /\ rendered = 0
    /\ loading = FALSE
    /\ list_finished = <<>>
    /\ detail_requested = <<>>
    /\ handler_errors = 0
    /\ clicked = <<>>
    /\ interval_calls = 0
    \* the tables are not used
    /\ cookie_table = {}
    /\ job_detail_table = {}
    /\ job_count = 0
    /\ db_ops = <<>>
    /\ overwritten = <<>>
    /\ deleted_rows = {}
    /\ fetched = <<>>
    /\ selected = <<>>
    \* no db.begin() block is open
    /\ session_ctx = <<>>
    /\ token = <<>>
    /\ session_rows = {}
    /\ begin_body = [row |-> [job_encrypt_id |-> 1, created_at |-> 1],
                     raises |-> FALSE, commit_raises |-> FALSE]
    /\ begin_pc = "idle"
    /\ begin_error = "none"
    /\ store_at_entry = {}
    \* no Logic.seek is running
    /\ debug = FALSE
    /\ logic_pc = "idle"
    /\ logic_error = "none"
    /\ saved_cookies = None
    \* evaluate_job(resume, job) is called, the agent streams any messages
    /\ stream \in SeqsUpTo(Messages, MaxMessages)
    /\ ej_pc = "stream"
    /\ ej_ix = 0
    /\ evaluation = None
    /\ ej_result = None
    /\ ej_error = "none"

SpecEvaluateJob == InitEvaluateJob /\ [][NextEvaluateJob]_vars

InitBegin ==
    \* no login is running
    /\ headless = TRUE
    /\ allow_to_show_login_page = TRUE
    /\ cookies = <<>>
    /\ login_pc = "idle"
    /\ page_url = "about:blank"
    /\ browser_ctx_cookies = {}
    /\ visible_browsers = 0
    /\ wait_for_login_calls = <<>>
    /\ raw_cookies = <<>>
    /\ login_result = <<>>
    /\ login_error = "none"
    \* no evaluation is running
    /\ concurrency = 1
    /\ unevaluated_job_list = <<>>
    /\ llm_outcome = <<>>
    /\ eval_pc = "idle"
    /\ put_ix = 0
    /\ job_queue = <<>>
    /\ unfinished_tasks = 0
    /\ workers = <<>>
    /\ job_evaluation = {}
    /\ get_calls = [j \in BatchIds |-> 0]
    /\ task_done_calls = [j \in BatchIds |-> 0]
    /\ save_calls = [j \in BatchIds |-> 0]
    \* no seek_jobs generator is running
    /\ count = 0
    /\ filter_func = [default |-> TRUE, accepts |-> {}]
    /\ site_jobs = <<>>
    /\ seek_pc = "idle"
    /\ queried_count = 0
    /\ job_list_ix = 0
    /\ encrypt_job_id_to_job_summary = <<>>
    /\ job_detail_list = <<>>
    /\ job_detail = 0
    /\ yielded = <<>>
    /\ seek_error = "none"
    /\ rendered = 0
    /\ loading = FALSE
    /\ list_finished = <<>>
    /\ detail_requested = <<>>
    /\ handler_errors = 0
    /\ clicked = <<>>
    /\ interval_calls = 0
    \* table job_detail holds any rows
    /\ cookie_table = {}
    /\ job_detail_table \in JobDetailTables
    /\ job_count = 0
    /\ db_ops = <<>>
    /\ overwritten = <<>>
    /\ deleted_rows = {}
    /\ fetched = <<>>
    /\ selected = <<>>
    \* async with db.begin() is reached, inside another block or not
    /\ session_ctx \in {None, Some("outer session")}
    /\ token = <<>>
    /\ session_rows = {}
    /\ begin_body \in [row : [job_encrypt_id : BatchIds, created_at : 1..MaxBatch],
                        raises : BOOLEAN, commit_raises : BOOLEAN]
    /\ begin_pc = "start"
    /\ begin_error = "none"
    /\ store_at_entry = {}
    \* no Logic.seek is running
    /\ debug = FALSE
    /\ logic_pc = "idle"
    /\ logic_error = "none"
    /\ saved_cookies = None
    \* no evaluate_job is running
    /\ stream = <<>>
    /\ ej_pc = "idle"
    /\ ej_ix = 0
    /\ evaluation = None
    /\ ej_result = None
    /\ ej_error = "none"

SpecBegin == InitBegin /\ [][NextBegin]_vars

(* ====================================================================== *)
(*                       properties of seek_jobs                          *)
(* ====================================================================== *)

\* C1 as stated: seek_jobs never yields more than count records.
C1_YieldsAtMostCount == Len(yielded) <= count

\* C2 as stated: once count records have been yielded the run is over: the
\* generator goes round the loop no more (it only finishes the iteration of
\* the last yield, or has ended).
C2_EndsWhenCountReached ==
    Len(yielded) >= count => seek_pc \in {"start", "interval", "done", "raised"}

\* C3: every yielded record was built from a detail the filter accepted, and
\* is the join of that detail with the summary of the same id.
C3_YieldedPassedFilter ==
    \A i \in DOMAIN yielded :
        /\ filter_result(yielded[i].from)
        /\ yielded[i].job =
              _build_job_detail(RawJobSummary(yielded[i].from.job_info.encrypt_id),
                                yielded[i].from)

C3_Witness ==
    /\ seek_pc = "interval"
    /\ ~filter_result(job_detail)
    /\ Len(yielded) >= 1
    /\ ~filter_func.default

(* ====================================================================== *)
(*                         properties of login                            *)
(* ====================================================================== *)

\* C10: when the page is at base_url after the goto, login returns the very
\* cookies it was given and the interactive login is never started: no call
\* of _wait_for_login, no second browser, no error.
C10_RestoredByCookies ==
    (login_pc \in {"wait_for_login", "returned", "raised"} /\ URL(page_url) = URL(base_url))
        => /\ login_pc = "returned"
           /\ login_result = cookies
           /\ wait_for_login_calls = <<>>
           /\ visible_browsers = 0

C10_Witness ==
    /\ login_pc = "returned"
    /\ URL(page_url) = URL(base_url)
    /\ Len(cookies) = 2
    /\ headless
    /\ login_result = cookies

\* C11: when the page is not at base_url after the goto and the login page
\* may not be shown, login raises at once: no visible browser is opened,
\* _wait_for_login is not called and nothing is returned.
C11_FailsFastWhenDisallowed ==
    (/\ login_pc \in {"wait_for_login", "returned", "raised"}
     /\ URL(page_url) # URL(base_url)
     /\ ~allow_to_show_login_page)
        => /\ login_pc = "raised"
           /\ login_error = "BossZhipinError: login page show is disabled"
           /\ visible_browsers = 0
           /\ wait_for_login_calls = <<>>
           /\ raw_cookies = <<>>
           /\ login_result = <<>>

C11_Witness ==
    /\ login_pc = "raised"
    /\ ~allow_to_show_login_page
    /\ headless
    /\ Len(cookies) >= 1
    /\ login_error = "BossZhipinError: login page show is disabled"

\* C12: when the restore failed and the login page may be shown, the login
\* runs on a second, visible browser if the inner one is headless and on the
\* inner browser otherwise; when login returns, what it returns is exactly
\* the marshalled cookies read from that surface, and each of them is in the
\* cookie jar of the inner browser.
C12_InteractiveLogin ==
    /\ (login_pc = "wait_for_login" \/ (login_pc = "returned" /\ URL(page_url) # URL(base_url)))
          => /\ allow_to_show_login_page
             /\ wait_for_login_calls = << IF headless THEN "second" ELSE "inner" >>
             /\ visible_browsers = IF headless THEN 1 ELSE 0
    /\ (login_pc = "returned" /\ URL(page_url) # URL(base_url))
          => /\ login_result = marshal_all(raw_cookies)
             /\ raw_cookies # <<>>
             /\ \A i \in DOMAIN login_result :
                   _unmarshal_cookie(login_result[i]) \in browser_ctx_cookies
             /\ \A i \in DOMAIN raw_cookies : raw_cookies[i] \in browser_ctx_cookies

C12_Witness ==
    /\ login_pc = "returned"
    /\ URL(page_url) # URL(base_url)
    /\ headless
    /\ visible_browsers = 1
    /\ Len(login_result) >= 2
    /\ Len(cookies) >= 1
    /\ login_result # cookies

RECURSIVE SumOver(_, _)
SumOver(f, S) == IF S = {} THEN 0
                 ELSE LET x == CHOOSE y \in S : TRUE IN f[x] + SumOver(f, S \ {x})

Batch == {unevaluated_job_list[i] : i \in DOMAIN unevaluated_job_list}

Held == {workers[w].job : w \in DOMAIN workers} \ {0}

NoCallRaises == \A j \in Batch : llm_outcome[j] \in {"ok", "commit_fails"}

\* C4 as stated: whenever evaluate returns (1 <= C <= N) every record of the
\* batch has exactly one ScoreResult.
C4_ExactlyNScoreResults ==
    (eval_pc = "returned" /\ concurrency <= Len(unevaluated_job_list))
        => /\ job_evaluation = Batch
           /\ \A j \in Batch : save_calls[j] = 1

\* C5: when the agent and the save of every record of the batch would
\* complete without raising, under fair scheduling Logic.evaluate eventually
\* returns.
C5_EvaluateReturns == NoCallRaises ~> (eval_pc = "returned")

\* C6: once a worker has been asked to stop, or evaluate has gone past the
\* join, the whole batch has been put and every put item has been
\* acknowledged.
C6_CancelOnlyAfterDrain ==
    (eval_pc \in {"gather", "returned"} \/ \E w \in DOMAIN workers : workers[w].must_cancel)
        => /\ put_ix = Len(unevaluated_job_list)
           /\ job_queue = <<>>
           /\ Held = {}
           /\ unfinished_tasks = 0
           /\ \A j \in Batch : task_done_calls[j] >= 1

C6_Witness ==
    /\ eval_pc = "returned"
    /\ Len(unevaluated_job_list) >= 1
    /\ \A j \in Batch : task_done_calls[j] = 1
    /\ \E w \in DOMAIN workers : workers[w].pc = "cancelled"
    /\ \E w \in DOMAIN workers : workers[w].pc = "raised"

\* C7: a job is acknowledged at most once and never before it was dequeued,
\* and once the worker that dequeued it has left it, it has been
\* acknowledged exactly once, whatever the outcome of scoring and saving.
C7_AckExactlyOnce ==
    /\ \A j \in BatchIds :
          /\ task_done_calls[j] <= get_calls[j]
          /\ task_done_calls[j] <= 1
          /\ (get_calls[j] >= 1 /\ j \notin Held) => task_done_calls[j] = 1
    /\ SumOver(task_done_calls, BatchIds) <= SumOver(get_calls, BatchIds)

C7_Witness ==
    \E a, b \in Batch :
        /\ get_calls[a] = 1 /\ task_done_calls[a] = 1 /\ a \notin Held
        /\ get_calls[b] = 1 /\ task_done_calls[b] = 0 /\ b \in Held
        /\ \E w \in DOMAIN workers : workers[w].pc = "raised"

\* C8 as stated: whatever calls fail, Logic.evaluate eventually returns.
C8_ReturnsDespiteFailures == <>(eval_pc = "returned")

\* C9: the queue never holds more than C items, the producer is never more
\* than C items ahead of the workers, and no put happens on a full queue.
C9_QueueBounded ==
    /\ Len(job_queue) <= concurrency
    /\ put_ix - SumOver(get_calls, BatchIds) <= concurrency
    /\ (Len(job_queue) = concurrency => ~ENABLED EvaluatePut)

C9_Witness ==
    /\ eval_pc = "put"
    /\ put_ix < Len(unevaluated_job_list)
    /\ Len(job_queue) = concurrency
    /\ SumOver(get_calls, BatchIds) >= 1

\* C21: at most C workers are between their get() and their task_done(),
\* and at most C records are dequeued and not yet acknowledged.
C21_BoundedConcurrency ==
    /\ Cardinality({w \in DOMAIN workers : workers[w].pc \in {"evaluate_job", "save"}})
          <= concurrency
    /\ Cardinality(Held) <= concurrency
    /\ SumOver(get_calls, BatchIds) - SumOver(task_done_calls, BatchIds) <= concurrency

C21_Witness ==
    /\ concurrency = 2
    /\ Cardinality({w \in DOMAIN workers : workers[w].pc = "evaluate_job"}) = 2
    /\ SumOver(get_calls, BatchIds) - SumOver(task_done_calls, BatchIds) = 2
    /\ job_queue # <<>>

\* C22: a record is dequeued at most once, no two workers hold the same
\* record, and a ScoreResult is written at most once per record.
C22_DequeuedByOneWorker ==
    /\ \A j \in BatchIds : get_calls[j] <= 1 /\ save_calls[j] <= 1
    /\ \A v, w \in DOMAIN workers :
          (v # w /\ workers[v].job # 0) => workers[v].job # workers[w].job

C22_Witness ==
    \E v, w \in DOMAIN workers :
        /\ v # w
        /\ workers[v].job # 0 /\ workers[w].job # 0
        /\ get_calls[workers[v].job] = 1 /\ get_calls[workers[w].job] = 1

FailsAt(w) ==
    \/ /\ workers[w].pc = "evaluate_job"
       /\ evaluate_job_call_raises \/ llm_outcome[workers[w].job] = "score_raises"
    \/ /\ workers[w].pc = "save"
       /\ llm_outcome[workers[w].job] = "save_raises"

Live(ws) == {w \in DOMAIN ws : ws[w].pc \notin {"raised", "cancelled"}}

\* C23: a worker whose scoring or saving raises acknowledges the record and
\* ends; an ended worker stays ended and dequeues nothing, so the number of
\* live workers never grows.
C23_FailedWorkerStaysDead ==
    [][/\ \A w \in DOMAIN workers :
             (FailsAt(w) /\ workers'[w] # workers[w])
                => /\ workers'[w].pc \in {"raised", "cancelled"}
                   /\ task_done_calls'[workers[w].job] = task_done_calls[workers[w].job] + 1
       /\ \A w \in DOMAIN workers :
             workers[w].pc \in {"raised", "cancelled"} => workers'[w] = workers[w]
       /\ Live(workers') \subseteq Live(workers)]_vars

C23_Witness ==
    /\ eval_pc = "put"
    /\ concurrency = 2
    /\ Cardinality(Live(workers)) = 1
    /\ \E w \in DOMAIN workers : workers[w].pc = "raised"
    /\ \E j \in Batch : get_calls[j] = 1 /\ task_done_calls[j] = 1
    /\ job_queue # <<>>

\* C27: a worker that is asked to stop is waiting in get() (or the request
\* has already ended it there); none holds a record.
C27_CancelledOnlyInGet ==
    \A w \in DOMAIN workers :
        (workers[w].must_cancel \/ workers[w].pc = "cancelled")
            => /\ workers[w].pc \in {"get", "cancelled"}
               /\ workers[w].job = 0
               /\ Held = {}

C27_Witness ==
    /\ eval_pc = "gather"
    /\ Len(unevaluated_job_list) >= 1
    /\ \E w \in DOMAIN workers : workers[w].must_cancel /\ workers[w].pc = "get"
    /\ \E w \in DOMAIN workers : workers[w].pc = "raised"

\* C28: evaluate never ends by an exception; when it has returned, a record
\* whose scoring or saving raised has no ScoreResult and is in the selection
\* of a later run.
C28_FailuresStayInside ==
    /\ eval_pc # "raised"
    /\ eval_pc = "returned"
          => \A j \in Batch :
                (get_calls[j] >= 1 /\ (evaluate_job_call_raises
                                       \/ llm_outcome[j] \in {"score_raises", "save_raises"}))
                   => /\ j \notin job_evaluation
                      /\ \A sel \in select_unevaluated(
                                {[job_encrypt_id |-> i, created_at |-> i] : i \in Batch},
                                job_evaluation, Len(unevaluated_job_list)) :
                            \E k \in DOMAIN sel : sel[k].job_encrypt_id = j

C28_Witness ==
    /\ eval_pc = "returned"
    /\ Len(unevaluated_job_list) = 2
    /\ \A j \in Batch : get_calls[j] = 1 /\ j \notin job_evaluation
    /\ \A w \in DOMAIN workers : workers[w].pc = "raised"

(* ====================================================================== *)
(*                 properties of Logic.seek and the tables                *)
(* ====================================================================== *)

\* C14: in Logic.seek the stored cookies are fetched at the start of the
\* session, before anything else can end the call
C14_CookiesFetchedAtStart ==
    logic_pc # "start"
        => /\ saved_cookies = Some(fetch_all(cookie_table))
           /\ logic_error = "none"

C16_SelectsUnevaluatedOldestFirst ==
    db_ops = <<"select">>
        => LET U == {r \in job_detail_table : r.job_encrypt_id \notin job_evaluation}
               S == {selected[i] : i \in DOMAIN selected}
           IN  /\ S \subseteq U
               /\ Cardinality(S) = Len(selected)
               /\ Len(selected) = Min(job_count, Cardinality(U))
               /\ \A i, j \in DOMAIN selected :
                     i < j => selected[i].created_at <= selected[j].created_at
               /\ \A s \in S : \A r \in U \ S : s.created_at <= r.created_at
               /\ (/\ job_detail_table = {[job_encrypt_id |-> i, created_at |-> i] : i \in 1..3}
                   /\ job_evaluation = {1}
                   /\ job_count = 2)
                      => selected = << [job_encrypt_id |-> 2, created_at |-> 2],
                                       [job_encrypt_id |-> 3, created_at |-> 3] >>

C16_Witness ==
    /\ db_ops = <<"select">>
    /\ job_detail_table = {[job_encrypt_id |-> i, created_at |-> i] : i \in 1..3}
    /\ job_evaluation = {1}
    /\ job_count = 2
    /\ selected = << [job_encrypt_id |-> 2, created_at |-> 2],
                     [job_encrypt_id |-> 3, created_at |-> 3] >>

(* ====================================================================== *)
(*          properties of seek_jobs: failed responses, single flight      *)
(* ====================================================================== *)

\* C17: once a response of a request that did not succeed was observed,
\* seek_jobs clicks no further card, yields no further job and does not end
\* as if nothing had happened
C17_FailedResponseIsFatal ==
    [][handler_errors >= 1
          => /\ clicked' = clicked
             /\ yielded' = yielded
             /\ seek_pc' # "done"]_vars

\* C18: a detail whose encrypt_id has no summary in the map is never passed
\* over: seek_jobs does not go on to the interval with such a detail
C18_MissingSummaryIsFatal ==
    seek_pc = "interval"
        => job_detail.job_info.encrypt_id \in DOMAIN encrypt_job_id_to_job_summary

\* C19: at most one clicked card waits for its detail, and while it waits
\* job_list_ix still is the index of that card
C19_SingleFlight ==
    /\ Len(detail_requested) <= 1
    /\ detail_requested # <<>> => job_list_ix = clicked[Len(clicked)]

(* ====================================================================== *)
(*                       properties of evaluate_job                       *)
(* ====================================================================== *)

\* C20: evaluate_job returns the JobEvaluation built from the last message
\* of the stream, which passed the full validation; it raises EvaluatorError
\* when no message passed a validation
C20_BuiltFromFinalOutput ==
    /\ ej_pc = "returned"
          => /\ stream # <<>>
             /\ ~validate_raises(stream[Len(stream)], FALSE)
             /\ ej_result = Some(JobEvaluation(stream[Len(stream)].output))
    /\ ej_pc = "raised"
          => /\ ej_error = "EvaluatorError: LLM cannot output well-formed result"
             /\ \A i \in DOMAIN stream : validate_raises(stream[i], i # Len(stream))

\* C24: the cards are clicked in the order 0, 1, 2, ... without a repeat or
\* a gap, job_list_ix is the number of clicks whose click() has returned,
\* and interval_func has been called once per finished turn of the loop,
\* whether the filter accepted the detail or not.
C24_OneAdvanceOnePausePerTurn ==
    /\ \A i \in DOMAIN clicked : clicked[i] = i - 1
    /\ job_list_ix = IF seek_pc = "click" THEN Len(clicked) - 1 ELSE Len(clicked)
    /\ seek_pc \in {"wait_list", "done"} => interval_calls = Len(clicked)
    /\ seek_pc \in {"click", "filter", "interval"} => interval_calls = Len(clicked) - 1

C24_Witness ==
    /\ seek_pc = "wait_list"
    /\ ~filter_func.default
    /\ clicked = <<0, 1>>
    /\ interval_calls = 2
    /\ Len(yielded) = 1

\* C25: the detail that is filtered is the detail of the card clicked in the
\* same turn, a detail is there whenever one is read, and no id is yielded
\* twice.
C25_DetailOfCurrentClick ==
    /\ seek_pc = "filter" => job_detail.job_info.encrypt_id = clicked[Len(clicked)] + 1
    /\ ~(seek_pc = "raised" /\ seek_error = "IndexError"
            /\ clicked # <<>> /\ job_detail_list = <<>>)
    /\ \A i, j \in DOMAIN yielded :
          i # j => yielded[i].job.job_encrypt_id # yielded[j].job.job_encrypt_id

\* C26: whenever seek_jobs goes on to click, job_list_ix is below the number
\* of rendered cards.
C26_CursorValidAtClick ==
    [][(seek_pc = "wait_list" /\ ~loading /\ seek_pc' # "wait_list")
          => job_list_ix < rendered]_vars

\* C30: default_job_filter returns FALSE exactly for a description that holds
\* one of the characters zhou (week), yue (month), nian (year).
C30_DefaultFilterRejectsStale ==
    seek_pc = "filter"
        => (default_job_filter(job_detail)
               <=> (CharSet(job_detail.boss_info.active_time_desc)
                       \cap {"zhou_week", "yue_month", "nian_year"}) = {})

(* ====================================================================== *)
(*                     properties of DatabaseContext.begin                *)
(* ====================================================================== *)

\* C29: when the body of a db.begin() block raised, the table is as it was at
\* entry and the exception left the block; when the body ended normally, its
\* write is in the table; in both cases session_ctx is as it was at entry.
C29_RollbackOrCommit ==
    /\ begin_pc = "raised"
          => /\ job_detail_table = store_at_entry
             /\ begin_error # "none"
             /\ session_ctx = token
    /\ begin_pc = "returned"
          => /\ job_detail_table = merge(store_at_entry, {begin_body.row})
             /\ ~begin_body.raises
             /\ session_ctx = token

====
